---- MODULE Spec2Model ----
(***************************************************************************)
(* GtkSignage: a display loop cycling through the active slides of a JSON  *)
(* slide file, and a Flask admin panel that logs in, adds, edits and       *)
(* deletes slides and toggles TV power over HDMI-CEC.                      *)
(*                                                                         *)
(* Spec         one request handler or one slide_loop tick per step        *)
(* SpecAdmin    the requests of the admin panel alone                      *)
(* SpecDisplay  slide_loop, the clock and the requests that change slides  *)
(* SpecLoop     slide_loop and the requests that change slides             *)
(* SpecStore    slide_loop, the clock, the requests and the file's removal *)
(* SpecLoad     _load_slides over slide files written outside the program  *)
(* SpecCache    cache_url over pages and supporting files that may fail    *)
(* SpecConc     the display thread and the web-server thread interleaved   *)
(*              statement by statement over SlideStore and JSONFileHandler *)
(***************************************************************************)
EXTENDS Integers, Sequences, FiniteSets, TLC

\* ---------------------------------------------------------------- bounds
MaxTime == 2
MaxSlides == 2

\* ------------------------------------------------------- program constants
\* Python None where a datetime is expected (Slide.start / Slide.end)
NoneT == 0
\* SlideStore._last_modified_time initially and after force_reload
ResetMtime == 0

\* ------------------------------------------------------------ form strings
\* A date string as typed in a form or stored in slides.json: "empty" is "",
\* "none" is JSON null / Python None, "iso" is the output format of
\* datetime.isoformat(), "short" another text fromisoformat accepts for the
\* same instant (no seconds), "bad" a text fromisoformat rejects.
TimeStr(kind, t) == [k |-> kind, t |-> t]
NoneStr == TimeStr("none", 0)
EmptyStr == TimeStr("empty", 0)
BadStr == TimeStr("bad", 0)

\* bool(x) of a date string or None
StrTruthy(s) == s.k \notin {"none", "empty"}
\* datetime.fromisoformat raises ValueError unless this holds
IsoOk(s) == s.k \in {"iso", "short"}
fromisoformat(s) == s.t
isoformat(d) == TimeStr("iso", d)

\* str.strip() on the strings the model's forms use
strip(s) ==
  CASE s = " admin " -> "admin"
    [] s = " pw " -> "pw"
    [] s = "  " -> ""
    [] s = " http://a " -> "http://a"
    [] OTHER -> s

UploadURL == "http://host/uploads/pic.png"
IsHttp(s) == s \in {"http://a", "https://b", UploadURL}
IsFileURL(s) == s = "file:///up/pic.png"

\* --------------------------------------------------------------- Slide
\* src/signage/models.py
mkSlide(source, duration, start, end, hide) ==
  [source |-> source, duration |-> duration, start |-> start, end |-> end, hide |-> hide]

\* current_slide = None
NoSlide == mkSlide("", 0, NoneT, NoneT, FALSE)

\* Slide.__init__ raises ValueError or TypeError unless this holds (the
\* arguments are already a str, an int, datetimes or None, and a bool)
SlideInitOk(source, duration, start, end) ==
  /\ strip(source) # ""
  /\ duration > 0
  /\ ~(start # NoneT /\ end # NoneT /\ start >= end)

\* is_active without the hide test
is_active_shows_hidden(s, t) ==
  IF s.start = NoneT /\ s.end = NoneT THEN TRUE
  ELSE IF s.start = NoneT /\ s.end # NoneT THEN t <= s.end
  ELSE IF s.start # NoneT /\ s.end = NoneT THEN t >= s.start
  ELSE s.start <= t /\ t <= s.end

is_active(s, t) ==
  IF s.hide THEN FALSE
  ELSE IF s.start = NoneT /\ s.end = NoneT THEN TRUE
  ELSE IF s.start = NoneT /\ s.end # NoneT THEN t <= s.end
  ELSE IF s.start # NoneT /\ s.end = NoneT THEN t >= s.start
  ELSE s.start <= t /\ t <= s.end

\* ----------------------------------------------------------- sequences
RECURSIVE SelectActive(_, _)
SelectActive(ss, t) ==
  IF ss = <<>> THEN <<>>
  ELSE IF is_active(Head(ss), t) THEN <<Head(ss)>> \o SelectActive(Tail(ss), t)
  ELSE SelectActive(Tail(ss), t)

\* del slides[index] taking the last element
RemoveAt_last(ss, i) == SubSeq(ss, 1, Len(ss) - 1)

\* slides[index] = v taking the first element
ReplaceAt_first(ss, i, v) == [ss EXCEPT ![1] = v]

RemoveAt(ss, i) == SubSeq(ss, 1, i) \o SubSeq(ss, i + 2, Len(ss))
ReplaceAt(ss, i, v) == [ss EXCEPT ![i + 1] = v]

\* --------------------------------------------------------- slides.json
\* One entry of slides.json as add_slide and save_slides write it.
mkItem(source, duration, start, end, hide) ==
  [source |-> source, duration |-> duration, start |-> start, end |-> end, hide |-> hide]

\* _load_slides, one item: the Slide built from it, or no Slide when the
\* item raises KeyError or ValueError (the item is skipped)
ItemParses(item) ==
  /\ (StrTruthy(item.start) => IsoOk(item.start))
  /\ (StrTruthy(item.end) => IsoOk(item.end))
  /\ SlideInitOk(item.source, item.duration,
                 IF StrTruthy(item.start) THEN fromisoformat(item.start) ELSE NoneT,
                 IF StrTruthy(item.end) THEN fromisoformat(item.end) ELSE NoneT)

ItemSlide(item) ==
  mkSlide(item.source, item.duration,
          IF StrTruthy(item.start) THEN fromisoformat(item.start) ELSE NoneT,
          IF StrTruthy(item.end) THEN fromisoformat(item.end) ELSE NoneT,
          item.hide)

RECURSIVE ParseItems(_)
ParseItems(raw) ==
  IF raw = <<>> THEN <<>>
  ELSE IF ItemParses(Head(raw)) THEN <<ItemSlide(Head(raw))>> \o ParseItems(Tail(raw))
  ELSE ParseItems(Tail(raw))

\* save_slides: the dictionary written for one Slide
SlideItem(s) ==
  mkItem(s.source, s.duration,
         IF s.start # NoneT THEN isoformat(s.start) ELSE NoneStr,
         IF s.end # NoneT THEN isoformat(s.end) ELSE NoneStr,
         s.hide)

SerializeSlides(ss) == [i \in 1..Len(ss) |-> SlideItem(ss[i])]

\* ------------------------------------------------------------- state
VARIABLES
  app,                  \* the Flask application serving: "server" (server.py) or "blueprint" (routes/)
  now,                  \* datetime.now(); also the clock file modification times are taken from
  fileExists,           \* slides.json exists
  fileData,             \* the list slides.json holds
  fileMtime,            \* os.path.getmtime(SLIDE_FILE)
  _slides,              \* SlideStore._slides
  _last_modified_time,  \* SlideStore._last_modified_time
  logged_in,            \* session["logged_in"]
  USE_FAKE_CEC,         \* cec_control.USE_FAKE_CEC after module initialisation
  _fake_status,         \* cec_control._fake_status
  tvPower,              \* power state of the TV behind the real adapter
  slide_index,          \* SignageWindow.slide_index
  current_slide,        \* SignageWindow.current_slide
  active_slides,        \* slide_loop: the list get_active_slides returned to the last tick
  shownIdx,             \* slide_loop: the index into active_slides the last tick displayed, -1 for none
  shownRun,             \* the indexes displayed by the latest ticks that saw the same active list
  didRead,              \* slide_loop: its get_active_slides called JSONFileHandler.load
  req,                  \* the request (or tick) handled last
  resp,                 \* the response to it
  lock,                 \* JSONFileHandler.lock: the thread holding it, or "free"
  filePartial,          \* slides.json is open for writing and not yet written
  pc,                   \* the statement each thread is at
  raw,                  \* _load_slides, load: each thread's raw_data
  li,                   \* _load_slides: each thread's position in raw_data
  current_mtime,        \* get_active_slides: the display thread's current_mtime
  wop,                  \* the request the web-server thread is handling
  wData,                \* add_slide's current_data, save_slides' data
  wAliased,             \* delete_slide: its slides is still the list SlideStore._slides names
  wSlides,              \* delete_slide: its slides once SlideStore._slides names another list
  sawPartial,           \* a load has read the file while it was partly written
  savedSince,           \* add_slide or save_slides has returned since the last tick began
  dAfterSave,           \* the running get_active_slides began after add_slide or save_slides returned
  dDirty,               \* a request wrote the file or removed a slide during the running get_active_slides
  cache_html,           \* URLCache: per URL, the <md5(url)>.html file of CACHE_DIR
  cache_files           \* URLCache: the supporting files in the URLs' cache directories

fileVars == <<fileExists, fileData, fileMtime>>
storeVars == <<_slides, _last_modified_time>>
cecVars == <<USE_FAKE_CEC, _fake_status, tvPower>>
dispVars == <<slide_index, current_slide, active_slides, shownIdx, shownRun, didRead>>
threadVars == <<pc, raw, li, current_mtime, wop, wData, wAliased, wSlides>>
ghostVars == <<sawPartial, savedSince, dAfterSave, dDirty>>
concVars == <<lock, filePartial, threadVars, ghostVars>>
cacheVars == <<cache_html, cache_files>>
vars == <<app, now, fileVars, storeVars, logged_in, cecVars, dispVars, req, resp, concVars,
          cacheVars>>

\* the display thread (the GTK main loop) and the web-server thread
Threads == {"display", "web"}

\* the web-server thread handles no request
NoOp == [op |-> "none", index |-> 0, item |-> mkItem("", 0, NoneStr, NoneStr, FALSE)]

\* ------------------------------------------------------- form inputs
\* the login forms: <<username, password>>
Logins ==
  {<<"admin", " pw ">>, <<" admin ", " pw ">>, <<"", " pw ">>, <<"admin", "">>,
   <<"eve", " pw ">>, <<"admin", "bad">>}
HttpMethods == {"GET", "POST"}

\* int(s) raises ValueError unless this holds
IntOk(s) == s \in {"0", "5"}
int(s) == IF s = "5" THEN 5 ELSE 0

\* ----------------------------------------------------- credentials
admin_user == "admin"
generate_password_hash(p) ==
  CASE p = "pw" -> "hash(pw)"
    [] p = "bad" -> "hash(bad)"
    [] OTHER -> "hash(other)"
check_password_hash(h, p) == h = generate_password_hash(p)
\* server.py reads the password itself, routes/auth.py its hash
admin_pass == IF app = "server" THEN "pw" ELSE "hash(pw)"
\* a login that accepts every password
PasswordVerifies_any(p) == TRUE

PasswordVerifies(p) ==
  IF app = "server" THEN p = admin_pass ELSE check_password_hash(admin_pass, p)

\* ----------------------------------------------------------- routing
Routes == {"login", "logout", "admin", "add", "edit", "delete", "cec_on", "cec_off"}

RouteExists(route) ==
  IF app = "server" THEN route \in Routes \ {"cec_on", "cec_off"} ELSE route \in Routes

Methods(route) ==
  CASE route \in {"login", "add", "edit"} -> {"GET", "POST"}
    [] route = "delete" -> IF app = "server" THEN {"GET"} ELSE {"POST"}
    [] route \in {"cec_on", "cec_off"} -> {"POST"}
    [] OTHER -> {"GET"}

\* delete_slide left without @login_required
Protected_but_delete == {"admin", "add", "edit", "cec_on", "cec_off"}

\* the views wrapped in @login_required
Protected == {"admin", "add", "edit", "delete", "cec_on", "cec_off"}

is_logged_in == logged_in

\* login_required: the wrapped view is not called
LoginRefused(route) == route \in Protected /\ ~is_logged_in

\* the request reaches the view function
Served(route, method) ==
  RouteExists(route) /\ method \in Methods(route) /\ ~LoginRefused(route)

mkReq(route, method, index) == [route |-> route, method |-> method, index |-> index]

Answer(r, route, method, index) ==
  /\ resp' = r
  /\ req' = mkReq(route, method, index)

\* --------------------------------------------------- JSONFileHandler
\* load(): the file's list, [] when the file does not exist
load == IF fileExists THEN fileData ELSE <<>>

\* save(data)
save(data) ==
  /\ fileExists' = TRUE
  /\ fileData' = data
  /\ fileMtime' = now

\* -------------------------------------------------------- SlideStore
\* _load_slides
_load_slides == _slides' = ParseItems(load)

\* add_slide, the validation of slide_data: it raises ValueError or
\* TypeError unless this holds
AddSlideValid(d) ==
  /\ strip(d.source) # ""
  /\ d.duration > 0
  /\ (StrTruthy(d.start) => IsoOk(d.start))
  /\ (StrTruthy(d.end) => IsoOk(d.end))
  /\ ~(/\ StrTruthy(d.start) /\ StrTruthy(d.end)
       /\ fromisoformat(d.start) >= fromisoformat(d.end))

\* add_slide, the dictionary appended for slide_data
NewSlideItem(d) ==
  mkItem(d.source, d.duration,
         IF StrTruthy(d.start) THEN isoformat(fromisoformat(d.start)) ELSE NoneStr,
         IF StrTruthy(d.end) THEN isoformat(fromisoformat(d.end)) ELSE NoneStr,
         d.hide)

force_reload == _last_modified_time' = ResetMtime

\* add_slide writing the new slide alone
add_slide_alone(d) ==
  /\ save(<<NewSlideItem(d)>>)
  /\ force_reload

\* add_slide(slide_data), past its validation, with the file writable
add_slide(d) ==
  /\ save(Append(load, NewSlideItem(d)))
  /\ force_reload

\* save_slides(slides), with the file writable
save_slides(ss) ==
  /\ save(SerializeSlides(ss))
  /\ force_reload

\* -------------------------------------------------------------- forms
AddForm(upload, source, duration, start, end, hide, io) ==
  [upload |-> upload, source |-> source, duration |-> duration,
   start |-> start, end |-> end, hide |-> hide, io |-> io]

\* one form for each way admin_add and add_slide refuse a form or fail
AddFormsRefused ==
  {AddForm("none", s, "5", EmptyStr, EmptyStr, "on", TRUE) : s \in {"", "ftp://x"}}
  \cup {AddForm(u, "", "5", EmptyStr, EmptyStr, "absent", TRUE) : u \in {"doc.exe", "big.png"}}
  \cup {AddForm("pic.png", " http://a ", "5", EmptyStr, EmptyStr, "absent", TRUE)}
  \cup {AddForm("none", " http://a ", d, EmptyStr, EmptyStr, "absent", TRUE) : d \in {"abc", "0"}}
  \cup {AddForm("none", " http://a ", "5", BadStr, EmptyStr, "absent", TRUE)}
  \cup {AddForm("none", " http://a ", "5", TimeStr("short", 2), TimeStr("iso", 2), "absent", TRUE)}
  \cup {AddForm("none", " http://a ", "5", EmptyStr, EmptyStr, "absent", FALSE)}

\* forms admin_add accepts: a URL shown always, with the hide box absent
\* or empty, a URL with a time window and hidden, an uploaded picture
AddFormsValid ==
  {AddForm("none", " http://a ", "5", EmptyStr, EmptyStr, h, TRUE) : h \in {"absent", ""}}
  \cup {AddForm("none", " http://a ", "5", TimeStr("short", 2), TimeStr("short", 3), "on", TRUE)}
  \cup {AddForm("pic.png", "", "5", EmptyStr, EmptyStr, "absent", TRUE)}

\* the forms of the admin panel's add requests
AddForms == AddFormsValid \cup AddFormsRefused

\* the time windows of the display's slides: one that ends, one that starts
DisplayWindows ==
  {<<EmptyStr, TimeStr("short", 1)>>, <<TimeStr("short", 2), EmptyStr>>}

\* the forms that give the display a slide per window and a hidden slide
DisplayAddForms ==
  {AddForm("none", " http://a ", "5", w[1], w[2], "absent", TRUE) : w \in DisplayWindows}
  \cup {AddForm("none", " http://a ", "5", EmptyStr, EmptyStr, "on", TRUE)}

\* the forms that give the slide loop two slides it shows and one it hides
LoopAddForms ==
  {AddForm("none", " http://a ", "5", EmptyStr, EmptyStr, "absent", TRUE),
   AddForm("pic.png", "", "5", EmptyStr, EmptyStr, "absent", TRUE),
   AddForm("none", " http://a ", "5", EmptyStr, EmptyStr, "on", TRUE)}

\* the forms that give the store a slide to show and a slide to hide
StoreAddForms ==
  {AddForm("none", " http://a ", "5", EmptyStr, EmptyStr, "absent", TRUE),
   AddForm("none", " http://a ", "5", EmptyStr, EmptyStr, "on", TRUE)}

\* admin_add: the form is answered 400 before slide_data is built
AddFormRefused(f) ==
  LET url == strip(f.source) IN
  \/ f.upload # "none" /\ url # ""
  \/ f.upload = "none" /\ (url = "" \/ ~IsHttp(url))
  \/ f.upload = "doc.exe"
  \/ f.upload = "big.png"
  \/ ~IntOk(f.duration)
  \/ int(f.duration) <= 0

\* admin_add: slide_data
AddFormData(f) ==
  mkItem(IF f.upload = "none" THEN strip(f.source) ELSE UploadURL,
         int(f.duration),
         IF StrTruthy(f.start) THEN f.start ELSE NoneStr,
         IF StrTruthy(f.end) THEN f.end ELSE NoneStr,
         f.hide # "absent" /\ f.hide # "")

EditForm(source, fs, duration, start, end, hide, io) ==
  [source |-> source, fs |-> fs, duration |-> duration,
   start |-> start, end |-> end, hide |-> hide, io |-> io]

\* fs: what the file system answers for a file:// source: "ok" the file is
\* there and reaches the upload folder, "nofile" os.path.isfile fails,
\* "copyfail" shutil.copy2 raises
EditFormsRefused ==
  {EditForm(s, "ok", "5", EmptyStr, EmptyStr, "absent", TRUE) : s \in {"", "ftp://x"}}
  \cup {EditForm("file:///up/pic.png", fs, "5", EmptyStr, EmptyStr, "absent", TRUE) :
          fs \in {"nofile", "copyfail"}}
  \cup {EditForm("http://a", "ok", d, EmptyStr, EmptyStr, "absent", TRUE) : d \in {"abc", "0"}}
  \cup {EditForm("http://a", "ok", "5", BadStr, EmptyStr, "absent", TRUE)}
  \cup {EditForm("http://a", "ok", "5", EmptyStr, BadStr, "absent", TRUE)}
  \cup {EditForm("http://a", "ok", "5", TimeStr("short", 2), TimeStr("iso", 2), "absent", TRUE)}
  \cup {EditForm("http://a", "ok", "5", EmptyStr, EmptyStr, "absent", FALSE)}

\* forms edit_slide accepts: a URL shown always, a URL with a time window
\* and the hide box ticked or empty, a file:// source in the upload folder
EditFormsValid ==
  {EditForm("http://a", "ok", "5", EmptyStr, EmptyStr, "absent", TRUE)}
  \cup {EditForm("http://a", "ok", "5", TimeStr("short", 2), TimeStr("short", 3), h, TRUE) :
          h \in {"on", ""}}
  \cup {EditForm("file:///up/pic.png", "ok", "5", EmptyStr, EmptyStr, "absent", TRUE)}

\* the forms of the admin panel's edit requests
EditForms == EditFormsValid \cup EditFormsRefused

\* edit_slide: the source after the file:// conversion
EditSource(f) ==
  LET src == strip(f.source) IN
  IF IsFileURL(src) /\ f.fs = "ok" THEN UploadURL ELSE src

\* edit_slide: the form is answered 400
EditFormRefused(f) ==
  LET src == EditSource(f) IN
  \/ IsFileURL(strip(f.source)) /\ f.fs # "ok"
  \/ src = ""
  \/ ~IsHttp(src)
  \/ ~IntOk(f.duration)
  \/ int(f.duration) <= 0
  \/ StrTruthy(f.start) /\ ~IsoOk(f.start)
  \/ StrTruthy(f.end) /\ ~IsoOk(f.end)
  \/ /\ StrTruthy(f.start) /\ StrTruthy(f.end)
     /\ IsoOk(f.start) /\ IsoOk(f.end)
     /\ fromisoformat(f.start) >= fromisoformat(f.end)

\* edit_slide: the values handed to Slide(...)
EditFormData(f) ==
  mkItem(EditSource(f), int(f.duration),
         IF StrTruthy(f.start) THEN f.start ELSE NoneStr,
         IF StrTruthy(f.end) THEN f.end ELSE NoneStr,
         f.hide # "absent")

\* edit_slide: updated_slide
UpdatedSlide(d) ==
  mkSlide(d.source, d.duration,
          IF StrTruthy(d.start) THEN fromisoformat(d.start) ELSE NoneT,
          IF StrTruthy(d.end) THEN fromisoformat(d.end) ELSE NoneT,
          d.hide)

\* --------------------------------------------------------- CEC control
\* module initialisation: fake mode is configured, or entered when the real
\* adapter cannot be created, found or opened
ModuleInitFake(fake, adapter_opens) == fake \/ ~adapter_opens

cec_power_on ==
  IF USE_FAKE_CEC
  THEN _fake_status' = "On" /\ UNCHANGED <<USE_FAKE_CEC, tvPower>>
  ELSE tvPower' = "On" /\ UNCHANGED <<USE_FAKE_CEC, _fake_status>>

\* cec_power_off leaving the fake status as it was
cec_power_off_keeps ==
  IF USE_FAKE_CEC
  THEN UNCHANGED <<USE_FAKE_CEC, _fake_status, tvPower>>
  ELSE tvPower' = "Off" /\ UNCHANGED <<USE_FAKE_CEC, _fake_status>>

cec_power_off ==
  IF USE_FAKE_CEC
  THEN _fake_status' = "Off" /\ UNCHANGED <<USE_FAKE_CEC, tvPower>>
  ELSE tvPower' = "Off" /\ UNCHANGED <<USE_FAKE_CEC, _fake_status>>

get_cec_status == IF USE_FAKE_CEC THEN _fake_status ELSE tvPower

\* ------------------------------------------------- requests: routing
\* Flask answers before any view runs: no such route, method not allowed,
\* or login_required redirects to the login page
Refuse(route, method, index) ==
  /\ ~Served(route, method)
  /\ Answer(IF ~RouteExists(route) THEN "404"
            ELSE IF method \notin Methods(route) THEN "405"
            ELSE "to_login",
            route, method, index)
  /\ UNCHANGED <<concVars, cacheVars, app, now, fileVars, storeVars, logged_in, cecVars, dispVars>>

\* ---------------------------------------------------- requests: auth
login(method, user, pass) ==
  /\ Served("login", method)
  /\ LET username == strip(user)
         password == strip(pass)
         ok == /\ method = "POST"
               /\ username # ""
               /\ password # ""
               /\ username = admin_user
               /\ PasswordVerifies(password)
     IN /\ logged_in' = IF ok THEN TRUE ELSE logged_in
        /\ resp' = IF ok THEN "to_admin" ELSE "200"
  /\ req' = mkReq("login", method, 0)
  /\ UNCHANGED <<concVars, cacheVars, app, now, fileVars, storeVars, cecVars, dispVars>>

logout ==
  /\ Served("logout", "GET")
  /\ logged_in' = FALSE
  /\ Answer("to_login", "logout", "GET", 0)
  /\ UNCHANGED <<concVars, cacheVars, app, now, fileVars, storeVars, cecVars, dispVars>>

\* --------------------------------------------------- requests: slides
admin ==
  /\ Served("admin", "GET")
  /\ _load_slides
  /\ Answer("200", "admin", "GET", 0)
  /\ UNCHANGED <<concVars, cacheVars, app, now, fileVars, _last_modified_time, logged_in, cecVars, dispVars>>

admin_add_get ==
  /\ Served("add", "GET")
  /\ Answer("200", "add", "GET", 0)
  /\ UNCHANGED <<concVars, cacheVars, app, now, fileVars, storeVars, logged_in, cecVars, dispVars>>

admin_add(f) ==
  /\ Served("add", "POST")
  /\ Len(load) < MaxSlides
  /\ IF AddFormRefused(f)
     THEN /\ Answer("400", "add", "POST", 0)
          /\ UNCHANGED <<fileVars, storeVars>>
     ELSE LET d == AddFormData(f) IN
          IF ~AddSlideValid(d)
          THEN /\ Answer("400", "add", "POST", 0)
               /\ UNCHANGED <<fileVars, storeVars>>
          ELSE IF ~f.io
          THEN /\ Answer("500", "add", "POST", 0)
               /\ UNCHANGED <<fileVars, storeVars>>
          ELSE /\ add_slide(d)
               /\ Answer("to_admin", "add", "POST", 0)
               /\ UNCHANGED _slides
  /\ UNCHANGED <<concVars, cacheVars, app, now, logged_in, cecVars, dispVars>>

edit_slide_get(index) ==
  /\ Served("edit", "GET")
  /\ _load_slides
  /\ Answer(IF index >= Len(ParseItems(load)) THEN "404" ELSE "200",
            "edit", "GET", index)
  /\ UNCHANGED <<concVars, cacheVars, app, now, fileVars, _last_modified_time, logged_in, cecVars, dispVars>>

edit_slide(index, f) ==
  /\ Served("edit", "POST")
  /\ LET slides == ParseItems(load) IN
     IF index < 0 \/ index >= Len(slides)
     THEN /\ Answer("404", "edit", "POST", index)
          /\ _slides' = slides
          /\ UNCHANGED <<fileVars, _last_modified_time>>
     ELSE IF EditFormRefused(f)
     THEN /\ Answer("400", "edit", "POST", index)
          /\ _slides' = slides
          /\ UNCHANGED <<fileVars, _last_modified_time>>
     ELSE LET d == EditFormData(f)
              edited == ReplaceAt(slides, index, UpdatedSlide(d))
          IN /\ _slides' = edited
             /\ IF f.io
                THEN /\ save_slides(edited)
                     /\ Answer("to_admin", "edit", "POST", index)
                ELSE /\ Answer("500", "edit", "POST", index)
                     /\ UNCHANGED <<fileVars, _last_modified_time>>
  /\ UNCHANGED <<concVars, cacheVars, app, now, logged_in, cecVars, dispVars>>

delete_slide(method, index, io) ==
  /\ Served("delete", method)
  /\ LET slides == ParseItems(load) IN
     IF 0 <= index /\ index < Len(slides)
     THEN LET rest == RemoveAt(slides, index) IN
          /\ _slides' = rest
          /\ IF io
             THEN /\ save_slides(rest)
                  /\ Answer("to_admin", "delete", method, index)
             ELSE /\ Answer("500", "delete", method, index)
                  /\ UNCHANGED <<fileVars, _last_modified_time>>
     ELSE /\ io
          /\ _slides' = slides
          /\ Answer("to_admin", "delete", method, index)
          /\ UNCHANGED <<fileVars, _last_modified_time>>
  /\ UNCHANGED <<concVars, cacheVars, app, now, logged_in, cecVars, dispVars>>

admin_cec_on ==
  /\ Served("cec_on", "POST")
  /\ cec_power_on
  /\ Answer("to_cec", "cec_on", "POST", 0)
  /\ UNCHANGED <<concVars, cacheVars, app, now, fileVars, storeVars, logged_in, dispVars>>

admin_cec_off ==
  /\ Served("cec_off", "POST")
  /\ cec_power_off
  /\ Answer("to_cec", "cec_off", "POST", 0)
  /\ UNCHANGED <<concVars, cacheVars, app, now, fileVars, storeVars, logged_in, dispVars>>

\* ------------------------------------------------------ display loop
\* get_active_slides reloading on every call
NeedsReload_always(mtime, last) == TRUE

\* get_active_slides: the file's mtime against the recorded one
NeedsReload(mtime, last) == mtime # last

\* get_active_slides calls _load_slides
GetActiveReloads == fileExists /\ NeedsReload(fileMtime, _last_modified_time)

\* SlideStore._slides when get_active_slides filters it
GetActiveMemory ==
  IF ~fileExists THEN <<>>
  ELSE IF GetActiveReloads THEN ParseItems(load)
  ELSE _slides

\* what get_active_slides returns
get_active_slides == SelectActive(GetActiveMemory, now)

\* slide_loop leaving the index on the slide just shown
NextIndex_stays(idx, n) == idx

\* slide_loop: the index advanced past the slide just shown
NextIndex(idx, n) == (idx + 1) % n

\* slide_loop once get_active_slides has returned active
ShowSlide(active) ==
  LET n == Len(active) IN
  /\ active_slides' = active
  /\ IF n = 0
     THEN /\ slide_index' = 0
          /\ current_slide' = NoSlide
          /\ shownIdx' = -1
          /\ shownRun' = <<>>
     ELSE LET idx == slide_index % n
              run == IF active = active_slides THEN Append(shownRun, idx) ELSE <<idx>>
          IN /\ current_slide' = active[idx + 1]
             /\ shownIdx' = idx
             /\ slide_index' = NextIndex(idx, n)
             /\ shownRun' = IF Len(run) > n THEN Tail(run) ELSE run
  /\ req' = mkReq("tick", "", 0)
  /\ resp' = "none"

\* one run of the timer callback
slide_loop ==
  /\ _slides' = GetActiveMemory
  /\ _last_modified_time' = IF GetActiveReloads THEN fileMtime ELSE _last_modified_time
  /\ didRead' = GetActiveReloads
  /\ ShowSlide(get_active_slides)
  /\ UNCHANGED <<concVars, cacheVars, app, now, fileVars, logged_in, cecVars>>

\* --------------------------------------------------------- environment
\* the clock advances
Tick ==
  /\ now < MaxTime
  /\ now' = now + 1
  /\ req' = mkReq("clock", "", 0)
  /\ resp' = "none"
  /\ UNCHANGED <<concVars, cacheVars, app, fileVars, storeVars, logged_in, cecVars, dispVars>>

\* slides.json is removed from outside the program
FileRemoved ==
  /\ fileExists
  /\ fileExists' = FALSE
  /\ fileData' = <<>>
  /\ fileMtime' = 0
  /\ req' = mkReq("removed", "", 0)
  /\ resp' = "none"
  /\ UNCHANGED <<concVars, cacheVars, app, now, storeVars, logged_in, cecVars, dispVars>>

\* ------------------------------------------------------------ URLCache
\* src/signage/cache.py. The cache directory is taken to be writable.
\* the URLs of slides
CacheURLs == {"http://a", "https://b"}

\* the supporting files pages refer to, as absolute URLs
Assets == {"s.css", "a.js", "i.png"}

\* a <link rel="stylesheet" href>, <script src> or <img src> of a page:
\* local is TRUE once the reference is a file:// URL into the cache
mkTag(kind, ref) == [kind |-> kind, ref |-> ref, local |-> FALSE]

\* the HTML a URL answers with
mkPage(body, tags) == [body |-> body, tags |-> tags]

\* requests.get or raise_for_status raises for the page
FetchFails == mkPage("", <<>>)

CachePages ==
  {mkPage("v1", <<>>),
   mkPage("v1", <<mkTag("css", "s.css"), mkTag("js", "a.js")>>),
   mkPage("v2", <<mkTag("img", "i.png"), mkTag("css", "s.css")>>)}

\* no <md5(url)>.html file
NoPage == [cached |-> FALSE, body |-> "", tags |-> <<>>]

\* is_cached(url): the cache file exists
is_cached(url) == cache_html[url].cached

\* cache_url: every supporting file's reference becomes its cache file
RewriteTag_always(tag, success) == [tag EXCEPT !.local = TRUE]

\* cache_url: "if success and cache_filename" the tag's href or src becomes
\* the file:// URL of the cached file, else it is left as it is
RewriteTag(tag, success) == IF success THEN [tag EXCEPT !.local = TRUE] ELSE tag

\* _cache_supporting_file: success of (success, cache_filename, original_url);
\* every exception of the download is caught and answered (False, None, None)
_cache_supporting_file(ref, fetched) == ref \in fetched

\* str(soup) after the three loops over the page's tags
RewrittenPage(page, fetched) ==
  [cached |-> TRUE,
   body |-> page.body,
   tags |-> [i \in 1..Len(page.tags) |->
               RewriteTag(page.tags[i], _cache_supporting_file(page.tags[i].ref, fetched))]]

\* cache_url(url), run by the thread ensure_cached starts: the web answers
\* with page (or the fetch fails) and serves the supporting files in fetched;
\* req records the call and its url
cache_url(url, page, fetched) ==
  /\ IF page = FetchFails
     THEN /\ resp' = "False"
          /\ UNCHANGED cacheVars
     ELSE /\ cache_files' = cache_files \cup
               {<<url, page.tags[i].ref>> :
                  i \in {j \in 1..Len(page.tags) :
                           _cache_supporting_file(page.tags[j].ref, fetched)}}
          /\ cache_html' = [cache_html EXCEPT ![url] = RewrittenPage(page, fetched)]
          /\ resp' = "True"
  /\ req' = mkReq("cache_url", url, 0)
  /\ UNCHANGED <<concVars, app, now, fileVars, storeVars, logged_in, cecVars, dispVars>>

\* ------------------------------------------------------ specification
Init ==
  /\ app \in {"server", "blueprint"}
  /\ now = 1
  /\ fileExists = FALSE
  /\ fileData = <<>>
  /\ fileMtime = 0
  /\ _slides = <<>>
  /\ _last_modified_time = ResetMtime
  /\ logged_in = FALSE
  /\ USE_FAKE_CEC \in {ModuleInitFake(fake, adapter_opens) : fake, adapter_opens \in BOOLEAN}
  /\ _fake_status = "Off"
  /\ tvPower = "Off"
  /\ slide_index = 0
  /\ current_slide = NoSlide
  /\ active_slides = <<>>
  /\ shownIdx = -1
  /\ shownRun = <<>>
  /\ didRead = FALSE
  /\ req = mkReq("none", "", 0)
  /\ resp = "none"
  /\ lock = "free"
  /\ filePartial = FALSE
  /\ pc = [th \in Threads |-> "idle"]
  /\ raw = [th \in Threads |-> <<>>]
  /\ li = [th \in Threads |-> 0]
  /\ current_mtime = 0
  /\ wop = NoOp
  /\ wData = <<>>
  /\ wAliased = FALSE
  /\ wSlides = <<>>
  /\ sawPartial = FALSE
  /\ savedSince = FALSE
  /\ dAfterSave = FALSE
  /\ dDirty = FALSE
  /\ cache_html = [url \in CacheURLs |-> NoPage]
  /\ cache_files = {}

\* the admin panel: every request
NextAdmin ==
  \/ \E route \in Routes, method \in HttpMethods : Refuse(route, method, 0)
  \/ \E method \in HttpMethods, form \in Logins : login(method, form[1], form[2])
  \/ logout
  \/ admin
  \/ admin_add_get
  \/ \E f \in AddForms : admin_add(f)
  \/ \E index \in 0..MaxSlides : edit_slide_get(index)
  \/ \E index \in 0..MaxSlides, f \in EditFormsValid : edit_slide(index, f)
  \/ \E f \in EditFormsRefused : edit_slide(0, f)
  \/ \E method \in HttpMethods, index \in 0..MaxSlides, io \in BOOLEAN :
       delete_slide(method, index, io)
  \/ admin_cec_on
  \/ admin_cec_off

\* the display: the timer callback, the clock and the file, and the requests
\* that add and remove slides
NextDisplay ==
  \/ login("POST", "admin", " pw ")
  \/ \E f \in DisplayAddForms : admin_add(f)
  \/ \E index \in 0..MaxSlides : delete_slide("POST", index, TRUE)
  \/ slide_loop
  \/ Tick

\* the slide loop over lists that requests alone change
NextLoop ==
  \/ login("POST", "admin", " pw ")
  \/ \E f \in LoopAddForms : admin_add(f)
  \/ \E index \in 0..MaxSlides : delete_slide("POST", index, TRUE)
  \/ slide_loop

\* the store polled by the display while the file is written and removed
NextStore ==
  \/ login("POST", "admin", " pw ")
  \/ \E f \in StoreAddForms : admin_add(f)
  \/ \E index \in 0..MaxSlides : delete_slide("POST", index, TRUE)
  \/ slide_loop
  \/ Tick
  \/ FileRemoved

Next == NextAdmin \/ slide_loop \/ Tick \/ FileRemoved

Spec == Init /\ [][Next]_vars

\* the requests alone: no handler reads what slide_loop, the clock or the
\* removal of the file change before overwriting it
SpecAdmin == Init /\ [][NextAdmin]_vars

\* the display with one configuration of the admin panel
InitDisplay == Init /\ app = "blueprint" /\ USE_FAKE_CEC = TRUE
SpecDisplay == InitDisplay /\ [][NextDisplay]_vars
SpecLoop == InitDisplay /\ [][NextLoop]_vars
SpecStore == InitDisplay /\ [][NextStore]_vars

\* ============================================== the threads, interleaved
\* One step is one statement of SlideStore or JSONFileHandler run by one
\* thread; a list comprehension or a loop that touches no shared list counts
\* as one statement.

\* a lock that lets every thread in
CanAcquire_always(l) == TRUE

\* `with self.lock` lets the thread in
CanAcquire(l) == l = "free"

\* the form the web-server thread's add requests carry
ConcAddForms ==
  {AddForm("none", " http://a ", "5", EmptyStr, EmptyStr, "absent", TRUE)}

Goto(th, l) == pc' = [pc EXCEPT ![th] = l]

\* SlideStore._slides is bound to a new list: delete_slide's slides keeps
\* naming the old one
Rebind(new) ==
  /\ _slides' = new
  /\ wAliased' = FALSE
  /\ wSlides' = IF wAliased THEN _slides ELSE wSlides

\* the web-server thread changes the file or the list while a tick runs
Dirties == dDirty' = (dDirty \/ pc["display"] # "idle")

\* JSONFileHandler.load, `with self.lock`
load_acquire(th) ==
  /\ pc[th] = "load_lock"
  /\ CanAcquire(lock)
  /\ lock' = th
  /\ Goto(th, "load_read")
  /\ UNCHANGED <<cacheVars, app, now, fileVars, storeVars, logged_in, cecVars, dispVars, req, resp,
                 filePartial, raw, li, current_mtime, wop, wData, wAliased, wSlides, ghostVars>>

\* JSONFileHandler.load, the body: [] for a missing file and for a file
\* json.load cannot decode; the lock is released on the way out
load_read(th) ==
  /\ pc[th] = "load_read"
  /\ LET data == IF fileExists /\ ~filePartial THEN fileData ELSE <<>> IN
     IF th = "web" /\ wop.op = "add"
     THEN /\ wData' = Append(data, wop.item)
          /\ Goto(th, "save_lock")
          /\ UNCHANGED raw
     ELSE /\ raw' = [raw EXCEPT ![th] = data]
          /\ Goto(th, "rebind")
          /\ UNCHANGED wData
  /\ sawPartial' = (sawPartial \/ (fileExists /\ filePartial))
  /\ lock' = "free"
  /\ UNCHANGED <<cacheVars, app, now, fileVars, storeVars, logged_in, cecVars, dispVars, req, resp,
                 filePartial, li, current_mtime, wop, wAliased, wSlides,
                 savedSince, dAfterSave, dDirty>>

\* _load_slides: cls._slides = []
_load_slides_rebind(th) ==
  /\ pc[th] = "rebind"
  /\ Rebind(<<>>)
  /\ li' = [li EXCEPT ![th] = 0]
  /\ Goto(th, "append")
  /\ UNCHANGED <<cacheVars, app, now, fileVars, _last_modified_time, logged_in, cecVars, dispVars,
                 req, resp, lock, filePartial, raw, current_mtime, wop, wData, ghostVars>>

\* _load_slides: one turn of the loop, cls._slides.append(slide) on the list
\* SlideStore._slides names now; past the loop the function returns
_load_slides_append(th) ==
  /\ pc[th] = "append"
  /\ IF li[th] < Len(raw[th])
     THEN LET item == raw[th][li[th] + 1] IN
          /\ _slides' = IF ItemParses(item) THEN Append(_slides, ItemSlide(item)) ELSE _slides
          /\ li' = [li EXCEPT ![th] = li[th] + 1]
          /\ UNCHANGED <<pc, raw, wAliased, wop>>
     ELSE /\ raw' = [raw EXCEPT ![th] = <<>>]
          /\ li' = [li EXCEPT ![th] = 0]
          /\ UNCHANGED _slides
          /\ IF th = "display" THEN Goto(th, "filter") /\ UNCHANGED <<wAliased, wop>>
             ELSE IF wop.op = "admin"
             THEN /\ Goto(th, "idle")
                  /\ wop' = NoOp
                  /\ UNCHANGED wAliased
             ELSE /\ Goto(th, "del")
                  /\ wAliased' = TRUE
                  /\ UNCHANGED wop
  /\ UNCHANGED <<cacheVars, app, now, fileVars, _last_modified_time, logged_in, cecVars, dispVars,
                 req, resp, lock, filePartial, current_mtime, wData, wSlides, ghostVars>>

\* ---- the display thread: slide_loop calls get_active_slides
\* the timer fires and slide_loop calls get_active_slides
get_active_slides_begin ==
  /\ pc["display"] = "idle"
  /\ Goto("display", "getmtime")
  /\ dAfterSave' = savedSince
  /\ savedSince' = FALSE
  /\ dDirty' = FALSE
  /\ UNCHANGED <<cacheVars, app, now, fileVars, storeVars, logged_in, cecVars, dispVars, req, resp,
                 lock, filePartial, raw, li, current_mtime, wop, wData, wAliased, wSlides,
                 sawPartial>>

\* get_active_slides: current_mtime = os.path.getmtime(...), or
\* FileNotFoundError and cls._slides = []
get_active_slides_getmtime ==
  /\ pc["display"] = "getmtime"
  /\ IF fileExists
     THEN /\ current_mtime' = fileMtime
          /\ Goto("display", "compare")
          /\ UNCHANGED <<_slides, wAliased, wSlides>>
     ELSE /\ Rebind(<<>>)
          /\ Goto("display", "filter")
          /\ UNCHANGED current_mtime
  /\ UNCHANGED <<cacheVars, app, now, fileVars, _last_modified_time, logged_in, cecVars, dispVars,
                 req, resp, lock, filePartial, raw, li, wop, wData, ghostVars>>

\* get_active_slides: if current_mtime != cls._last_modified_time
get_active_slides_compare ==
  /\ pc["display"] = "compare"
  /\ Goto("display", IF NeedsReload(current_mtime, _last_modified_time)
                     THEN "setlast" ELSE "filter")
  /\ UNCHANGED <<cacheVars, app, now, fileVars, storeVars, logged_in, cecVars, dispVars, req, resp,
                 lock, filePartial, raw, li, current_mtime, wop, wData, wAliased, wSlides,
                 ghostVars>>

\* get_active_slides: cls._last_modified_time = current_mtime
get_active_slides_setlast ==
  /\ pc["display"] = "setlast"
  /\ _last_modified_time' = current_mtime
  /\ Goto("display", "load_lock")
  /\ UNCHANGED <<cacheVars, app, now, fileVars, _slides, logged_in, cecVars, dispVars, req, resp,
                 lock, filePartial, raw, li, current_mtime, wop, wData, wAliased, wSlides,
                 ghostVars>>

\* get_active_slides: the list comprehension, returned to slide_loop
get_active_slides_return ==
  /\ pc["display"] = "filter"
  /\ active_slides' = SelectActive(_slides, now)
  /\ Goto("display", "idle")
  /\ current_mtime' = 0
  /\ dAfterSave' = FALSE
  /\ dDirty' = FALSE
  /\ UNCHANGED <<cacheVars, app, now, fileVars, storeVars, logged_in, cecVars, req, resp,
                 slide_index, current_slide, shownIdx, shownRun, didRead,
                 lock, filePartial, raw, li, wop, wData, wAliased, wSlides,
                 sawPartial, savedSince>>

\* ---- the web-server thread
\* POST /admin/add with a form admin_add and add_slide accept
admin_add_begin(f) ==
  /\ pc["web"] = "idle"
  /\ Served("add", "POST")
  /\ ~AddFormRefused(f) /\ AddSlideValid(AddFormData(f))
  /\ Len(load) < MaxSlides
  /\ wop' = [op |-> "add", index |-> 0, item |-> NewSlideItem(AddFormData(f))]
  /\ Goto("web", "load_lock")
  /\ UNCHANGED <<cacheVars, app, now, fileVars, storeVars, logged_in, cecVars, dispVars, req, resp,
                 lock, filePartial, raw, li, current_mtime, wData, wAliased, wSlides,
                 ghostVars>>

\* GET /admin: get_all_slides
admin_begin ==
  /\ pc["web"] = "idle"
  /\ Served("admin", "GET")
  /\ wop' = [NoOp EXCEPT !.op = "admin"]
  /\ Goto("web", "load_lock")
  /\ UNCHANGED <<cacheVars, app, now, fileVars, storeVars, logged_in, cecVars, dispVars, req, resp,
                 lock, filePartial, raw, li, current_mtime, wData, wAliased, wSlides,
                 ghostVars>>

\* POST /admin/delete/<index>: get_all_slides
delete_slide_begin(index) ==
  /\ pc["web"] = "idle"
  /\ Served("delete", "POST")
  /\ Len(load) <= MaxSlides
  /\ wop' = [NoOp EXCEPT !.op = "delete", !.index = index]
  /\ Goto("web", "load_lock")
  /\ UNCHANGED <<cacheVars, app, now, fileVars, storeVars, logged_in, cecVars, dispVars, req, resp,
                 lock, filePartial, raw, li, current_mtime, wData, wAliased, wSlides,
                 ghostVars>>

\* delete_slide: the range test and del slides[index]
delete_slide_del ==
  /\ pc["web"] = "del"
  /\ LET slides == IF wAliased THEN _slides ELSE wSlides IN
     IF 0 <= wop.index /\ wop.index < Len(slides)
     THEN /\ IF wAliased
             THEN _slides' = RemoveAt(_slides, wop.index) /\ UNCHANGED wSlides
             ELSE wSlides' = RemoveAt(wSlides, wop.index) /\ UNCHANGED _slides
          /\ Goto("web", "serialize")
          /\ Dirties
          /\ UNCHANGED <<wop, wAliased>>
     ELSE /\ Goto("web", "idle")
          /\ wop' = NoOp
          /\ wAliased' = FALSE
          /\ wSlides' = <<>>
          /\ UNCHANGED <<_slides, dDirty>>
  /\ UNCHANGED <<cacheVars, app, now, fileVars, _last_modified_time, logged_in, cecVars, dispVars,
                 req, resp, lock, filePartial, raw, li, current_mtime, wData,
                 sawPartial, savedSince, dAfterSave>>

\* save_slides: the loop that builds data
save_slides_data ==
  /\ pc["web"] = "serialize"
  /\ wData' = SerializeSlides(IF wAliased THEN _slides ELSE wSlides)
  /\ Goto("web", "save_lock")
  /\ UNCHANGED <<cacheVars, app, now, fileVars, storeVars, logged_in, cecVars, dispVars, req, resp,
                 lock, filePartial, raw, li, current_mtime, wop, wAliased, wSlides,
                 ghostVars>>

\* JSONFileHandler.save, `with self.lock`
save_acquire ==
  /\ pc["web"] = "save_lock"
  /\ CanAcquire(lock)
  /\ lock' = "web"
  /\ Goto("web", "save_open")
  /\ UNCHANGED <<cacheVars, app, now, fileVars, storeVars, logged_in, cecVars, dispVars, req, resp,
                 filePartial, raw, li, current_mtime, wop, wData, wAliased, wSlides,
                 ghostVars>>

\* JSONFileHandler.save: open("w") creates or empties the file
save_open ==
  /\ pc["web"] = "save_open"
  /\ fileExists' = TRUE
  /\ fileData' = <<>>
  /\ fileMtime' = now
  /\ filePartial' = TRUE
  /\ Dirties
  /\ Goto("web", "save_write")
  /\ UNCHANGED <<cacheVars, app, now, storeVars, logged_in, cecVars, dispVars, req, resp,
                 lock, raw, li, current_mtime, wop, wData, wAliased, wSlides,
                 sawPartial, savedSince, dAfterSave>>

\* JSONFileHandler.save: json.dump, the file closed, the lock released
save_write ==
  /\ pc["web"] = "save_write"
  /\ fileData' = wData
  /\ fileMtime' = now
  /\ filePartial' = FALSE
  /\ lock' = "free"
  /\ Dirties
  /\ Goto("web", "force")
  /\ UNCHANGED <<cacheVars, app, now, fileExists, storeVars, logged_in, cecVars, dispVars, req, resp,
                 raw, li, current_mtime, wop, wData, wAliased, wSlides,
                 sawPartial, savedSince, dAfterSave>>

\* add_slide, save_slides: cls.force_reload(), and the function returns
force_reload_return ==
  /\ pc["web"] = "force"
  /\ force_reload
  /\ savedSince' = TRUE
  /\ IF wop.op = "add"
     THEN /\ Goto("web", "idle")
          /\ wop' = NoOp
     ELSE /\ Goto("web", "force2")
          /\ UNCHANGED wop
  /\ wData' = <<>>
  /\ UNCHANGED <<cacheVars, app, now, fileVars, _slides, logged_in, cecVars, dispVars, req, resp,
                 lock, filePartial, raw, li, current_mtime, wAliased, wSlides,
                 sawPartial, dAfterSave, dDirty>>

\* delete_slide: SlideStore.force_reload() and the redirect
delete_slide_return ==
  /\ pc["web"] = "force2"
  /\ force_reload
  /\ Goto("web", "idle")
  /\ wop' = NoOp
  /\ wAliased' = FALSE
  /\ wSlides' = <<>>
  /\ UNCHANGED <<cacheVars, app, now, fileVars, _slides, logged_in, cecVars, dispVars, req, resp,
                 lock, filePartial, raw, li, current_mtime, wData, ghostVars>>

\* the clock advances under the threads
ConcTick ==
  /\ now < MaxTime
  /\ now' = now + 1
  /\ UNCHANGED <<cacheVars, app, fileVars, storeVars, logged_in, cecVars, dispVars, req, resp, concVars>>

NextConc ==
  \/ \E th \in Threads : load_acquire(th)
  \/ \E th \in Threads : load_read(th)
  \/ \E th \in Threads : _load_slides_rebind(th)
  \/ \E th \in Threads : _load_slides_append(th)
  \/ get_active_slides_begin
  \/ get_active_slides_getmtime
  \/ get_active_slides_compare
  \/ get_active_slides_setlast
  \/ get_active_slides_return
  \/ \E f \in ConcAddForms : admin_add_begin(f)
  \/ admin_begin
  \/ \E index \in 0..MaxSlides : delete_slide_begin(index)
  \/ delete_slide_del
  \/ save_slides_data
  \/ save_acquire
  \/ save_open
  \/ save_write
  \/ force_reload_return
  \/ delete_slide_return
  \/ ConcTick

\* the threads start with the operator logged in
InitConc ==
  /\ app = "blueprint"
  /\ now = 1
  /\ fileExists = FALSE /\ fileData = <<>> /\ fileMtime = 0
  /\ _slides = <<>> /\ _last_modified_time = ResetMtime
  /\ logged_in = TRUE
  /\ USE_FAKE_CEC = TRUE /\ _fake_status = "Off" /\ tvPower = "Off"
  /\ slide_index = 0 /\ current_slide = NoSlide /\ active_slides = <<>>
  /\ shownIdx = -1 /\ shownRun = <<>> /\ didRead = FALSE
  /\ req = mkReq("none", "", 0) /\ resp = "none"
  /\ lock = "free" /\ filePartial = FALSE
  /\ pc = [th \in Threads |-> "idle"]
  /\ raw = [th \in Threads |-> <<>>]
  /\ li = [th \in Threads |-> 0]
  /\ current_mtime = 0
  /\ wop = NoOp /\ wData = <<>> /\ wAliased = FALSE /\ wSlides = <<>>
  /\ sawPartial = FALSE /\ savedSince = FALSE /\ dAfterSave = FALSE /\ dDirty = FALSE
  /\ cache_html = [url \in CacheURLs |-> NoPage] /\ cache_files = {}

SpecConc == InitConc /\ [][NextConc]_vars

\* ================================== _load_slides over files written by hand
\* A "start" or "end" of slides.json that is a JSON number, not a string
NumberStr == TimeStr("number", 5)

\* entries of a slides.json edited outside the application: two valid ones,
\* one with a date fromisoformat rejects, one with a number for a date
LoadItems ==
  {mkItem("http://a", 5, NoneStr, NoneStr, FALSE),
   mkItem(UploadURL, 5, NoneStr, isoformat(2), TRUE),
   mkItem("http://a", 5, BadStr, NoneStr, FALSE),
   mkItem("http://a", 5, NumberStr, NoneStr, FALSE)}

\* the lists of entries such a file holds
LoadFiles ==
  UNION {[1..n -> LoadItems] : n \in 0..MaxSlides}

\* datetime.fromisoformat(x) raises TypeError: x is truthy and not a str
FromIsoTypeError(x) == StrTruthy(x) /\ x.k = "number"

\* _load_slides, one item: it raises TypeError, which neither the inner
\* except (KeyError, ValueError) nor the outer except (IOError, ValueError,
\* json.JSONDecodeError) catches; "end" is reached only past "start"
ItemTypeError(item) ==
  \/ FromIsoTypeError(item.start)
  \/ /\ (StrTruthy(item.start) => IsoOk(item.start))
     /\ FromIsoTypeError(item.end)

\* _load_slides: an exception leaves the for loop and the method
LoadRaises(data) == \E i \in 1..Len(data) : ItemTypeError(data[i])

\* _load_slides: the slides appended to cls._slides when the loop ends or
\* an item raises TypeError
RECURSIVE LoadedSlides(_)
LoadedSlides(data) ==
  IF data = <<>> THEN <<>>
  ELSE IF ItemTypeError(Head(data)) THEN <<>>
  ELSE IF ItemParses(Head(data)) THEN <<ItemSlide(Head(data))>> \o LoadedSlides(Tail(data))
  ELSE LoadedSlides(Tail(data))

\* JSONFileHandler.load(): [] for a missing file and for a JSONDecodeError
LoadedData == IF fileExists /\ ~filePartial THEN fileData ELSE <<>>

\* slides.json is written outside the application, whole or cut short
FileWritten(data, whole) ==
  /\ fileExists' = TRUE
  /\ fileData' = data
  /\ fileMtime' = now
  /\ filePartial' = ~whole
  /\ Answer("none", "written", "", 0)
  /\ UNCHANGED <<cacheVars, app, now, storeVars, logged_in, cecVars, dispVars, lock, pc, raw, li,
                 current_mtime, wop, wData, wAliased, wSlides, sawPartial, savedSince,
                 dAfterSave, dDirty>>

\* SlideStore._load_slides() called with the file as it is
_load_slides_call ==
  /\ _slides' = LoadedSlides(LoadedData)
  /\ Answer(IF LoadRaises(LoadedData) THEN "raised" ELSE "returned", "_load_slides", "", 0)
  /\ UNCHANGED <<concVars, cacheVars, app, now, fileVars, _last_modified_time, logged_in, cecVars,
                 dispVars>>

NextLoad ==
  \/ \E data \in LoadFiles, whole \in BOOLEAN : FileWritten(data, whole)
  \/ FileRemoved
  \/ _load_slides_call

SpecLoad == InitDisplay /\ [][NextLoad]_vars

\* ================================================ the cache of the pages
NextCache ==
  \E url \in CacheURLs, page \in CachePages \cup {FetchFails}, fetched \in SUBSET Assets :
    cache_url(url, page, fetched)

SpecCache == InitDisplay /\ [][NextCache]_vars

\* ====================================================== the display
\* a slide's window holds at time t
InWindow(s, t) ==
  /\ (s.start = NoneT \/ s.start <= t)
  /\ (s.end = NoneT \/ t <= s.end)

\* C1, part: a tick that gets the non-empty list the tick before it got
\* displays the slide after the one displayed then, the first after the
\* last; a tick that follows no display starts at index 0.
C1_TickOrder ==
  (req'.route = "tick" /\ active_slides' # <<>>) =>
    /\ current_slide' = active_slides'[shownIdx' + 1]
    /\ (shownIdx = -1 => shownIdx' = 0)
    /\ (active_slides' = active_slides =>
          shownIdx' = IF shownIdx = Len(active_slides) - 1 THEN 0 ELSE shownIdx + 1)

\* C1, part: n consecutive ticks over one list of n active slides display
\* every index of the list exactly once.
C1_OncePerCycle ==
  Len(shownRun) = Len(active_slides) =>
    \A i \in 0..(Len(active_slides) - 1) :
      Cardinality({k \in 1..Len(shownRun) : shownRun[k] = i}) = 1

\* C1: with a fixed non-empty list of n active slides, successive slide_loop
\* ticks display the slides in list order starting at index 0 and wrapping
\* from the last to the first, each slide exactly once in n consecutive ticks.
C1_CyclicDisplay == [][C1_TickOrder]_vars /\ []C1_OncePerCycle

\* two ticks in a row over two active slides, the second wrapping to the first
C1_Witness ==
  /\ req.route = "tick"
  /\ Len(active_slides) = 2
  /\ shownRun = <<1, 0>>

\* C2: every slide slide_loop displays is active at the moment of the tick:
\* not hidden, and the current time within its start/end window.
C2_DisplayedIsActive ==
  (req.route = "tick" /\ current_slide # NoSlide) =>
    /\ ~current_slide.hide
    /\ InWindow(current_slide, now)

\* a tick displays a slide while the store holds a slide it must not display
C2_Witness ==
  /\ req.route = "tick"
  /\ current_slide # NoSlide
  /\ \E i \in 1..Len(_slides) : _slides[i].hide \/ ~InWindow(_slides[i], now)

\* C3: get_active_slides re-reads the slide file if and only if the file's
\* modification time differs from _last_modified_time; when they are equal it
\* answers from the in-memory list without reading the file; when the file is
\* missing it returns the empty list.
C3_Step ==
  req'.route = "tick" =>
    /\ didRead' = (fileExists /\ fileMtime # _last_modified_time)
    /\ (fileExists /\ fileMtime = _last_modified_time =>
          active_slides' = SelectActive(_slides, now))
    /\ (fileExists /\ fileMtime # _last_modified_time =>
          active_slides' = SelectActive(ParseItems(fileData), now))
    /\ (~fileExists => active_slides' = <<>>)

C3_ReloadIffModified == [][C3_Step]_vars

\* a tick answered from memory, the file unchanged, with a slide to show
C3_Witness ==
  /\ req.route = "tick"
  /\ ~didRead
  /\ fileExists
  /\ active_slides # <<>>

\* =================================================== the admin panel
\* the routes the claims call login-protected
AdminRoutes == {"admin", "add", "edit", "delete", "cec_on", "cec_off"}

\* C5: a request without a logged-in session to a login-protected admin route
\* (/admin, /admin/add, /admin/edit/<index>, /admin/delete/<index>,
\* /admin/cec-on, /admin/cec-off) is redirected to the login page, and changes
\* neither the slide store nor the CEC power state.
C5_Step ==
  (req'.route \in AdminRoutes /\ ~logged_in) =>
    /\ UNCHANGED <<fileVars, storeVars, cecVars, logged_in>>
    /\ (RouteExists(req'.route) /\ req'.method \in Methods(req'.route) =>
          resp' = "to_login")

C5_UnauthenticatedRefused == [][C5_Step]_vars

\* a delete without a session is redirected while the store holds a slide
C5_Witness ==
  /\ req.route = "delete"
  /\ resp = "to_login"
  /\ ~logged_in
  /\ fileExists /\ Len(fileData) > 0

\* the login form carries the admin's name and password, both non-empty
CredentialsMatch(user, pass) ==
  /\ strip(user) # "" /\ strip(user) = "admin"
  /\ strip(pass) # "" /\ strip(pass) = "pw"

\* C6: logged_in becomes true only through a POST to /login whose non-empty
\* username equals the configured admin username and whose non-empty password
\* verifies against the configured credential; any other login attempt leaves
\* the session as it was, so a session not logged in stays not logged in.
C6_Step ==
  /\ (~logged_in /\ logged_in') =>
       /\ req'.route = "login" /\ req'.method = "POST"
       /\ \E form \in Logins :
            CredentialsMatch(form[1], form[2]) /\ login("POST", form[1], form[2])
  /\ req'.route = "login" =>
       \A method \in HttpMethods, form \in Logins :
         (~(method = "POST" /\ CredentialsMatch(form[1], form[2]))
          /\ login(method, form[1], form[2]))
           => logged_in' = logged_in

C6_LoginOnlyByCredentials == [][C6_Step]_vars

\* a login has succeeded
C6_Witness ==
  /\ req.route = "login"
  /\ resp = "to_admin"
  /\ logged_in

\* the instant a stored or submitted date string stands for, NoneT for none
TimeOf(s) == IF s.k \in {"iso", "short"} THEN s.t ELSE NoneT

\* item carries the values of the dictionary d
Carries(item, d) ==
  /\ item.source = d.source
  /\ item.duration = d.duration
  /\ TimeOf(item.start) = TimeOf(d.start)
  /\ TimeOf(item.end) = TimeOf(d.end)
  /\ item.hide = d.hide

\* C8: a successful add_slide appends exactly one slide, carrying the given
\* source, duration, start, end and hide values, at the end of the stored
\* list; all previously stored slides remain, unchanged and in the same order.
C8_Step ==
  (req'.route = "add" /\ resp' = "to_admin") =>
    /\ fileExists'
    /\ Len(fileData') = Len(load) + 1
    /\ SubSeq(fileData', 1, Len(load)) = load
    /\ \A f \in AddForms :
         admin_add(f) => Carries(fileData'[Len(fileData')], AddFormData(f))

C8_AddAppendsOne == [][C8_Step]_vars

\* an add has succeeded on a store that held a slide
C8_Witness ==
  /\ req.route = "add"
  /\ resp = "to_admin"
  /\ Len(fileData) = 2

\* new is old without its element at the 0-based index i
IsRemovalAt(old, new, i) ==
  /\ Len(new) = Len(old) - 1
  /\ \A k \in 1..Len(new) : new[k] = IF k <= i THEN old[k] ELSE old[k + 1]

\* C9: delete_slide with an index inside 0..len-1 removes exactly the slide at
\* that index and keeps all other slides unchanged and in order; with an index
\* outside that range it leaves the slide store unchanged; in both cases it
\* redirects to /admin.
C9_Step ==
  req'.route = "delete" =>
    \A method \in HttpMethods, index \in 0..MaxSlides :
      delete_slide(method, index, TRUE) =>
        /\ resp' = "to_admin"
        /\ IF index < Len(load)
           THEN fileExists' /\ IsRemovalAt(load, fileData', index)
           ELSE UNCHANGED fileVars

C9_DeleteRemovesOne == [][C9_Step]_vars

\* the slide at index 0 of two has been deleted
C9_Witness ==
  /\ req.route = "delete"
  /\ resp = "to_admin"
  /\ req.index = 0
  /\ fileExists /\ Len(fileData) = 1

\* C10: edit_slide with an index outside 0..len-1 answers 404 and changes
\* nothing; a successful edit replaces only the slide at the given index,
\* leaving the number of slides and every other slide unchanged; an edit
\* rejected with a 400 response leaves the stored slides unchanged.
C10_Step ==
  /\ \A index \in 0..MaxSlides :
       (req'.route = "edit" /\ req'.index = index /\ resp' \notin {"to_login", "405"}
        /\ index >= Len(load)) =>
         resp' = "404" /\ UNCHANGED <<fileVars, logged_in, cecVars>>
  /\ (req'.route = "edit" /\ resp' = "to_admin") =>
       LET index == req'.index IN
       /\ index < Len(load)
       /\ Len(fileData') = Len(load)
       /\ \A k \in 1..Len(load) : k # index + 1 => fileData'[k] = load[k]
       /\ \A f \in EditForms :
            edit_slide(index, f) => Carries(fileData'[index + 1], EditFormData(f))
  /\ (req'.route = "edit" /\ resp' = "400") => UNCHANGED fileVars

C10_EditReplacesOne == [][C10_Step]_vars

\* the second of two slides has been edited
C10_Witness ==
  /\ req.route = "edit"
  /\ resp = "to_admin"
  /\ req.index = 1
  /\ Len(fileData) = 2

\* ========================================================= the threads
\* C4: after add_slide or save_slides has returned, the next get_active_slides
\* call of the display loop returns the slides built from the newly saved file
\* contents, in every interleaving of the web-server thread with the display
\* thread. Stated for the calls during which no request writes the file or
\* removes a slide from the list: the file then holds the newly saved contents
\* from the call's first statement to its last.
C4_Step ==
  (pc["display"] = "filter" /\ pc'["display"] = "idle" /\ dAfterSave /\ ~dDirty) =>
    active_slides' = SelectActive(ParseItems(fileData), now)

C4_FreshAfterSave == [][C4_Step]_vars

\* C7: JSONFileHandler.load and JSONFileHandler.save on the same file are
\* mutually exclusive: no load is inside its locked block while a save is
\* inside its own, and no load reads a partly written file.
C7_LoadSaveExclusive ==
  /\ ~(pc["display"] = "load_read" /\ pc["web"] \in {"save_open", "save_write"})
  /\ ~sawPartial

\* the display thread waits for the lock while save has the file half written
C7_Witness ==
  /\ pc["display"] = "load_lock"
  /\ pc["web"] = "save_write"
  /\ filePartial
  /\ lock = "web"

\* C11: a slide is deleted only in response to a POST request from a
\* logged-in session: a GET to /admin/delete/<index> never changes the slide
\* store.
C11_Step ==
  req'.route = "delete" =>
    /\ (req'.method = "GET" => UNCHANGED fileVars)
    /\ (fileData' # fileData => req'.method = "POST" /\ logged_in)

C11_DeleteOnlyByPost == [][C11_Step]_vars

\* =============================================================== loading
\* an error occurs while loading or parsing the file: it does not decode,
\* or one of its entries raises
LoadError ==
  \/ fileExists /\ filePartial
  \/ \E i \in 1..Len(LoadedData) :
       ItemTypeError(LoadedData[i]) \/ ~ItemParses(LoadedData[i])

\* C12: if any error occurs while loading or parsing the slide file,
\* _load_slides returns normally and leaves the in-memory _slides list empty.
C12_Step ==
  (req'.route = "_load_slides" /\ LoadError) =>
    /\ resp' = "returned"
    /\ _slides' = <<>>

C12_LoadErrorEmpties == [][C12_Step]_vars

\* ==================================================================== CEC
\* C13, part: in fake mode a served power-on leaves the status 'On', a
\* served power-off leaves it 'Off', and nothing else changes the status or
\* the mode.
C13_Step ==
  USE_FAKE_CEC =>
    /\ USE_FAKE_CEC'
    /\ IF req'.route = "cec_on" /\ resp' = "to_cec" THEN get_cec_status' = "On"
       ELSE IF req'.route = "cec_off" /\ resp' = "to_cec" THEN get_cec_status' = "Off"
       ELSE get_cec_status' = get_cec_status

\* C13: in fake CEC mode (configured, or entered because the real adapter
\* could not be initialised) the status is initially 'Off', and after any
\* sequence of cec_power_on and cec_power_off calls get_cec_status returns
\* 'On' if the last call was cec_power_on and 'Off' if it was cec_power_off.
C13_FakeStatusFollowsLastCall ==
  (USE_FAKE_CEC => get_cec_status = "Off") /\ [][C13_Step]_vars

\* in fake mode a power-on has been served and the status reads 'On'
C13_Witness ==
  /\ USE_FAKE_CEC
  /\ req.route = "cec_on" /\ resp = "to_cec"
  /\ get_cec_status = "On"

\* ================================================================== cache
\* C14: cache_url is best-effort: if fetching the page fails it returns
\* False and leaves any previously cached HTML for that URL unchanged; if
\* fetching a supporting asset fails, the page is still cached with that
\* asset's original reference kept, and cache_url returns True.
C14_Step ==
  req'.route = "cache_url" =>
    \A page \in CachePages \cup {FetchFails}, fetched \in SUBSET Assets :
      LET url == req'.method IN
      cache_url(url, page, fetched) =>
        IF page = FetchFails
        THEN resp' = "False" /\ cache_html' = cache_html
        ELSE /\ resp' = "True"
             /\ cache_html'[url].cached
             /\ cache_html'[url].body = page.body
             /\ Len(cache_html'[url].tags) = Len(page.tags)
             /\ \A i \in 1..Len(page.tags) :
                  page.tags[i].ref \notin fetched => cache_html'[url].tags[i] = page.tags[i]

C14_CacheBestEffort == [][C14_Step]_vars

\* a page is cached with one supporting file's original reference kept
\* beside a rewritten one, and a later failed fetch of the page left it so
C14_Witness ==
  /\ req.route = "cache_url" /\ resp = "False"
  /\ \E url \in CacheURLs :
       /\ req.method = url
       /\ is_cached(url)
       /\ \E i, j \in 1..Len(cache_html[url].tags) :
            ~cache_html[url].tags[i].local /\ cache_html[url].tags[j].local

====
